---- MODULE Spec2Model ----
(***************************************************************************)
(* The rodbus client channel task (rodbus/src/tcp/client.rs) together with *)
(* the request it completes (rodbus/src/client/requests/send_mutable_fc.rs)*)
(* as a state machine.  One step of the task is the code between two       *)
(* suspension points (queue receive, connect, handshake, timed read,       *)
(* delay sleep).  The application side enqueues commands and may drop the  *)
(* Channel handle.                                                         *)
(*                                                                         *)
(* ClientLoop (client/task.rs), Promise (client/message.rs) and the        *)
(* ReconnectStrategy (client/channel.rs) are called by the task but their  *)
(* code is not among the source files; they are modelled from spec.md      *)
(* sections 3, 4.1, 4.3 and 5.                                             *)
(*                                                                         *)
(* Three smaller machines share the module, each with its own variables    *)
(* and its own specification: the codec of MutableFunctionCode on its own  *)
(* (CodecSpec), the server example with its handler, its locks and its     *)
(* console task (rodbus/examples/mutable_server.rs, ServerSpec), and the   *)
(* construction of an AddressRange in the client example (RangeSpec).      *)
(***************************************************************************)
EXTENDS Integers, Sequences, FiniteSets, TLC

\* ---------------------------------------------------------------- bounds
MaxRequests == 2
MaxQueue == 2
MaxReplyLen == 2
MaxDataLen == 2
BankLen == 2
MaxReg == 1

\* ------------------------------------------------- reconnect strategy
\* default policy of spec.md 4.3: doubling from a minimum, capped at a maximum
MinDelay == 1
MaxDelay == 4

VARIABLES
    queue,      \* the mpsc command queue (tx side in Channel, rx side in ClientLoop)
    closed,     \* TRUE once the Channel handle (the only sender) has been dropped
    pc,         \* where the task is suspended
    enabled,    \* ClientLoop.enabled
    decode,     \* ClientLoop.decode
    promise,    \* per request: the value its promise was resolved with and how often
    written,    \* requests that have been written to a physical connection
    inflight,   \* the request run_one_request is executing (0: none)
    retry,      \* ReconnectStrategy: the delay the next call of next_delay returns
    delay,      \* the delay next_delay returned last since the last established connection (0: none)
    handler,    \* TcpTaskConnectionHandler variant of this task
    attempt     \* the running try_connect_and_run call: its results and strategy calls

\* one use of the codec of MutableFunctionCode, outside any channel
VARIABLES
    op,         \* the MutableFunctionCode value handed to serialize
    wire,       \* the bytes under the cursor: written by serialize, read by parse
    result,     \* what parse_all returned for the bytes in wire
    cstep       \* how far this use of the codec has got

\* the server example: SimpleHandler's storage, its locks, and the two tasks
\* that use them
VARIABLES
    coils,              \* SimpleHandler.coils
    discrete_inputs,    \* SimpleHandler.discrete_inputs
    holding_registers,  \* SimpleHandler.holding_registers
    input_registers,    \* SimpleHandler.input_registers
    handler_lock,       \* owner of the Mutex around the handler (ServerHandlerType)
    bank_lock,          \* owner of the Mutex of each bank
    spc,                \* where the server task is
    request,            \* the request the server task is processing
    reply,              \* the reply to the request processed last
    cpc,                \* where the console task (run_server) is
    command             \* the console command being executed

\* one construction of an AddressRange from a line of console input
VARIABLES
    start,      \* the first number of the line, a u16
    count,      \* the second number of the line, a u16
    range,      \* what AddressRange::try_from returned for them
    rstep       \* how far run_channel has got with the line

channelVars == <<queue, closed, pc, enabled, decode, promise, written,
                 inflight, retry, delay, handler, attempt>>

\* the channel task's variables without the promises the requests carry
taskVars == <<queue, closed, pc, enabled, decode, written,
              inflight, retry, delay, handler, attempt>>

codecVars == <<op, wire, result, cstep>>

rangeVars == <<start, count, range, rstep>>

storageVars == <<coils, discrete_inputs, holding_registers, input_registers>>

serverVars == <<coils, discrete_inputs, holding_registers, input_registers,
                handler_lock, bank_lock, spc, request, reply, cpc, command>>

\* what a step of the channel task leaves alone
nonChannelVars == <<codecVars, serverVars, rangeVars>>

vars == <<queue, closed, pc, enabled, decode, promise, written,
          inflight, retry, delay, handler, attempt, op, wire, result, cstep,
          coils, discrete_inputs, holding_registers, input_registers,
          handler_lock, bank_lock, spc, request, reply, cpc, command,
          start, count, range, rstep>>

ReqIds == 1..MaxRequests
ByteVals == {0, 255}
DecodeLevels == {"Nothing", "DataValues"}
Handlers == {"Tcp", "Tls"}

\* Command (the tagged union of spec.md section 3)
Request(id) == [type |-> "Request", id |-> id, level |-> "-"]
Enable == [type |-> "Enable", id |-> 0, level |-> "-"]
Disable == [type |-> "Disable", id |-> 0, level |-> "-"]
SetDecodeLevel(l) == [type |-> "SetDecodeLevel", id |-> 0, level |-> l]
Settings == {Enable, Disable} \cup {SetDecodeLevel(l) : l \in DecodeLevels}

Min(a, b) == IF a <= b THEN a ELSE b

\* all byte strings of length 0..n
RECURSIVE BytesUpTo(_)
BytesUpTo(n) ==
    IF n = 0 THEN {<<>>}
    ELSE LET shorter == BytesUpTo(n - 1)
         IN shorter \cup {Append(s, b) : s \in {t \in shorter : Len(t) = n - 1}, b \in ByteVals}

Replies == BytesUpTo(MaxReplyLen)

\* ------------------------------------------------------------ Promise
Unresolved == [val |-> "pending", n |-> 0]
NotCreated == [val |-> "none", n |-> 0]

\* one call of Promise::success / Promise::failure: the first call decides
\* the value the caller sees, n counts the calls
Resolve(p, id, v) ==
    [p EXCEPT ![id] = [val |-> IF @.n = 0 THEN v ELSE @.val, n |-> Min(@.n + 1, 2)]]

\* ------------------------------------------------------- SendMutableFC
\* function codes and 16-bit data values the codec is exercised with
FunctionCodes == {0, 69, 255}
U16Vals == {0, 258, 65535}

\* all sequences over vals of length 0..n
RECURSIVE SeqsUpTo(_, _)
SeqsUpTo(vals, n) ==
    IF n = 0 THEN {<<>>}
    ELSE LET shorter == SeqsUpTo(vals, n - 1)
         IN shorter \cup {Append(t, v) : t \in {u \in shorter : Len(u) = n - 1}, v \in vals}

\* MutableFunctionCode values: a function code and a vector of u16
Ops == [fc : FunctionCodes, data : SeqsUpTo(U16Vals, MaxDataLen)]

\* WriteCursor::write_u16_be: high byte, then low byte
WriteU16Be(v) == <<v \div 256, v % 256>>

RECURSIVE SerializeData(_)
SerializeData(data) ==
    IF data = <<>> THEN <<>>
    ELSE WriteU16Be(Head(data)) \o SerializeData(Tail(data))

\* MutableFunctionCode::serialize: the function code, then every element of
\* data as a big-endian u16
Serialize(o) == <<o.fc>> \o SerializeData(o.data)

\* the outcome of a parse: the value read and the bytes left in the cursor
ParseErr == [ok |-> FALSE, fc |-> 0, data |-> <<>>, rest |-> <<>>]

\* mutant: parse takes the function code only and leaves the payload
ParseLeavesPayload(bytes) ==
    IF Len(bytes) = 0 THEN ParseErr
    ELSE [ok |-> TRUE, fc |-> bytes[1], data |-> <<>>, rest |-> Tail(bytes)]

\* MutableFunctionCode::parse: read_u8 (an error on an empty cursor), then
\* read_all, every byte of which becomes one u16 of the data vector
Parse(bytes) ==
    IF Len(bytes) = 0 THEN ParseErr
    ELSE [ok |-> TRUE, fc |-> bytes[1], data |-> Tail(bytes), rest |-> <<>>]

\* MutableFunctionCode::parse succeeds
ParseOk(bytes) == Parse(bytes).ok

\* bytes left in the cursor after parse
ParseRest(bytes) == Parse(bytes).rest

\* SendMutableFC::parse_all: parse, then expect_empty
ParseAllOk(bytes) == ParseOk(bytes) /\ ParseRest(bytes) = <<>>

\* SendMutableFC::parse_all: the response, or the error of parse or of
\* expect_empty
ParseAll(bytes) == IF ParseAllOk(bytes) THEN Parse(bytes) ELSE ParseErr

\* mutant: failing one request fails every pending promise
FailureFailsAllPending(p, id, err) ==
    [j \in DOMAIN p |-> IF j = id \/ p[j] = Unresolved THEN Resolve(p, j, err)[j] ELSE p[j]]

\* mutant: the error is dropped and the promise stays as it was
FailureLeavesPromise(p, id, err) == p

\* SendMutableFC::failure
Failure(p, id, err) == Resolve(p, id, err)

\* mutant: the success path returns Ok without resolving the promise
HandleResponseForgetsPromise(p, id, bytes) ==
    IF ParseAllOk(bytes)
    THEN [promise |-> p, result |-> "Ok"]
    ELSE [promise |-> p, result |-> "Err"]

\* mutant: the error path fails the promise itself and still returns the error
HandleResponseFailsOnError(p, id, bytes) ==
    IF ParseAllOk(bytes)
    THEN [promise |-> Resolve(p, id, "Success"), result |-> "Ok"]
    ELSE [promise |-> Resolve(p, id, "BadResponse"), result |-> "Err"]

\* mutant: the promise is completed before parse_all has accepted the reply
HandleResponseResolvesBeforeParse(p, id, bytes) ==
    IF ParseAllOk(bytes)
    THEN [promise |-> Resolve(p, id, "Success"), result |-> "Ok"]
    ELSE [promise |-> Resolve(p, id, "Success"), result |-> "Err"]

\* SendMutableFC::handle_response: the promise afterwards and the result
HandleResponse(p, id, bytes) ==
    IF ParseAllOk(bytes)
    THEN [promise |-> Resolve(p, id, "Success"), result |-> "Ok"]
    ELSE [promise |-> p, result |-> "Err"]

\* -------------------------------------------------- ReconnectStrategy
NextDelay(cur) == [delay |-> cur, retry |-> Min(2 * cur, MaxDelay)]
Reset == MinDelay

\* ------------------------------------------------------ TcpChannelTask
NoAttempt == [connect |-> "none", handshake |-> "none", session |-> "none", calls |-> <<>>]

\* TcpTaskConnectionHandler::handle: Tcp always yields a PhysLayer, Tls may fail
HandleResults(h) == IF h = "Tcp" THEN {"Ok"} ELSE {"Ok", "Err"}

\* mutant: the result of wait_for_enabled is ignored
RunAfterWaitIgnoresResult(res) == "connect"

\* run, first half of the loop body: what follows wait_for_enabled's result
RunAfterWait(res) == IF res = "Shutdown" THEN "done" ELSE "connect"

\* mutant: wait_for_enabled is called once, before the loop
RunAfterTrySkipsWait(res) == IF res = "Shutdown" THEN "done" ELSE "connect"

\* mutant: any Err(_) of try_connect_and_run ends the task
RunAfterTryAnyErrEndsTask(res) == IF res = "Ok" THEN "wait_for_enabled" ELSE "done"

\* mutant: after Ok(()) the next connect attempt is made without
\* wait_for_enabled
RunAfterTryOkReconnects(res) ==
    IF res = "Shutdown" THEN "done"
    ELSE IF res = "Ok" THEN "connect" ELSE "wait_for_enabled"

\* run, second half of the loop body: what follows try_connect_and_run's result
\* ("Ok" is Ok(()), "Disable" and "Shutdown" are Err(StateChange::..))
RunAfterTry(res) == IF res = "Shutdown" THEN "done" ELSE "wait_for_enabled"

\* mutant: an I/O error ends the task like a shutdown
SessionResultIoErrorEndsTask(err) ==
    IF err \in {"Shutdown", "IoError"} THEN "Shutdown" ELSE "Ok"

\* mutant: a bad frame ends the task like a shutdown
SessionResultBadFrameEndsTask(err) ==
    IF err \in {"Shutdown", "BadFrame"} THEN "Shutdown" ELSE "Ok"

\* mutant: SessionError::Disabled ends the task like a shutdown
SessionResultDisabledEndsTask(err) ==
    IF err \in {"Shutdown", "Disabled"} THEN "Shutdown" ELSE "Ok"

\* mutant: SessionError::Shutdown is treated like the other session errors
SessionResultShutdownReconnects(err) == "Ok"

\* try_connect_and_run: the match on the SessionError client_loop.run returns
SessionResult(err) == IF err = "Shutdown" THEN "Shutdown" ELSE "Ok"

\* ------------------------------------------------------- SimpleHandler
Banks == {"coils", "discrete_inputs", "holding_registers", "input_registers"}
Owners == {"none", "server", "console"}

\* addresses a request is made with: the first, the last inside the storage,
\* the first beyond it, and the largest u16
Addresses == {0, BankLen - 1, BankLen, 65535}

\* register values a write request carries
RegVals == {0, 65535}

ReadFns == {"read_coil", "read_discrete_input", "read_holding_register",
            "read_input_register"}

\* the values a write-multiple request carries, in the order of the frame
BitRuns == {<<TRUE, FALSE>>, <<FALSE, TRUE>>}
RegRuns == {<<65535, 0>>}

NoRequest == [fn |-> "none", address |-> 0, bit |-> FALSE, reg |-> 0,
              bits |-> <<>>, regs |-> <<>>]

\* write-multiple requests carry a valid AddressRange: the last address is
\* at most 65535
Requests ==
    [fn : ReadFns, address : Addresses, bit : {FALSE}, reg : {0},
     bits : {<<>>}, regs : {<<>>}]
    \cup [fn : {"write_single_coil"}, address : Addresses, bit : BOOLEAN, reg : {0},
          bits : {<<>>}, regs : {<<>>}]
    \cup [fn : {"write_single_register"}, address : Addresses, bit : {FALSE}, reg : RegVals,
          bits : {<<>>}, regs : {<<>>}]
    \cup {r \in [fn : {"write_multiple_coils"}, address : Addresses, bit : {FALSE},
                  reg : {0}, bits : BitRuns, regs : {<<>>}] :
                r.address + Len(r.bits) <= 65536}
    \cup {r \in [fn : {"write_multiple_registers"}, address : Addresses, bit : {FALSE},
                  reg : {0}, bits : {<<>>}, regs : RegRuns] :
                r.address + Len(r.regs) <= 65536}

\* the bank a handler method locks
BankOf(fn) ==
    CASE fn \in {"read_coil", "write_single_coil", "write_multiple_coils"} -> "coils"
      [] fn = "read_discrete_input" -> "discrete_inputs"
      [] fn \in {"read_holding_register", "write_single_register",
                  "write_multiple_registers"} -> "holding_registers"
      [] fn = "read_input_register" -> "input_registers"

\* the bank a console command locks
BankOfCommand(c) ==
    CASE c = "uc" -> "coils"
      [] c = "udi" -> "discrete_inputs"
      [] c = "uhr" -> "holding_registers"
      [] c = "uir" -> "input_registers"

\* what a handler method returns
NoReply == [kind |-> "none", bit |-> FALSE, reg |-> 0, code |-> "-"]
OkBit(b) == [kind |-> "bit", bit |-> b, reg |-> 0, code |-> "-"]
OkReg(v) == [kind |-> "reg", bit |-> FALSE, reg |-> v, code |-> "-"]
OkUnit == [kind |-> "ok", bit |-> FALSE, reg |-> 0, code |-> "-"]
Exception(c) == [kind |-> "exception", bit |-> FALSE, reg |-> 0, code |-> c]

\* mutant: an address beyond the storage reads the last element
ReadCoilClampsAddress(bank, address) ==
    IF address < Len(bank) THEN OkBit(bank[address + 1]) ELSE OkBit(bank[Len(bank)])

\* SimpleHandler::read_coil: Vec::get(address as usize), or IllegalDataAddress
ReadCoil(bank, address) ==
    IF address < Len(bank) THEN OkBit(bank[address + 1])
    ELSE Exception("IllegalDataAddress")

\* SimpleHandler::read_discrete_input
ReadDiscreteInput(bank, address) ==
    IF address < Len(bank) THEN OkBit(bank[address + 1])
    ELSE Exception("IllegalDataAddress")

\* SimpleHandler::read_holding_register
ReadHoldingRegister(bank, address) ==
    IF address < Len(bank) THEN OkReg(bank[address + 1])
    ELSE Exception("IllegalDataAddress")

\* SimpleHandler::read_input_register
ReadInputRegister(bank, address) ==
    IF address < Len(bank) THEN OkReg(bank[address + 1])
    ELSE Exception("IllegalDataAddress")

\* mutant: the write lands on the element after the one addressed
WriteSingleCoilOffByOne(bank, index, value) ==
    IF index < Len(bank)
    THEN [bank |-> [bank EXCEPT ![IF index + 2 <= Len(bank) THEN index + 2 ELSE 1] = value],
          result |-> OkUnit]
    ELSE [bank |-> bank, result |-> Exception("IllegalDataAddress")]

\* SimpleHandler::write_single_coil: the storage afterwards and the result
WriteSingleCoil(bank, index, value) ==
    IF index < Len(bank)
    THEN [bank |-> [bank EXCEPT ![index + 1] = value], result |-> OkUnit]
    ELSE [bank |-> bank, result |-> Exception("IllegalDataAddress")]

\* SimpleHandler::write_single_register
WriteSingleRegister(bank, index, value) ==
    IF index < Len(bank)
    THEN [bank |-> [bank EXCEPT ![index + 1] = value], result |-> OkUnit]
    ELSE [bank |-> bank, result |-> Exception("IllegalDataAddress")]

\* WriteCoils / WriteRegisters: what values.iterator yields for a request
\* whose range starts at first, one Indexed value per element of the range
IndexedValues(first, values) ==
    [i \in 1..Len(values) |-> [index |-> first + i - 1, value |-> values[i]]]

\* mutant: the indexes are checked before anything is written
WriteMultipleCoilsAllOrNothing(bank, items) ==
    IF \A i \in 1..Len(items) : items[i].index < Len(bank)
    THEN [bank |-> [j \in 1..Len(bank) |->
                        IF \E i \in 1..Len(items) : items[i].index + 1 = j
                        THEN items[CHOOSE i \in 1..Len(items) : items[i].index + 1 = j].value
                        ELSE bank[j]],
          result |-> OkUnit]
    ELSE [bank |-> bank, result |-> Exception("IllegalDataAddress")]

\* SimpleHandler::write_multiple_coils: the loop over values.iterator, which
\* returns at the first index that get_mut does not find
RECURSIVE WriteMultipleCoils(_, _)
WriteMultipleCoils(bank, items) ==
    IF items = <<>> THEN [bank |-> bank, result |-> OkUnit]
    ELSE IF Head(items).index < Len(bank)
         THEN WriteMultipleCoils([bank EXCEPT ![Head(items).index + 1] = Head(items).value],
                                 Tail(items))
         ELSE [bank |-> bank, result |-> Exception("IllegalDataAddress")]

\* SimpleHandler::write_multiple_registers
RECURSIVE WriteMultipleRegisters(_, _)
WriteMultipleRegisters(bank, items) ==
    IF items = <<>> THEN [bank |-> bank, result |-> OkUnit]
    ELSE IF Head(items).index < Len(bank)
         THEN WriteMultipleRegisters([bank EXCEPT ![Head(items).index + 1] = Head(items).value],
                                     Tail(items))
         ELSE [bank |-> bank, result |-> Exception("IllegalDataAddress")]

\* run_server "uc" / "udi": every element is negated
FlipAll(bank) == [i \in 1..Len(bank) |-> ~bank[i]]

\* run_server "uhr" / "uir": every element += 1, wrapping where the build
\* does not check the overflow
IncrementAll(bank) == [i \in 1..Len(bank) |-> (bank[i] + 1) % 65536]

\* where the build checks the overflow: the elements before the first one
\* that holds 65535 are incremented, then the task panics
Overflows(bank) == \E i \in 1..Len(bank) : bank[i] = 65535
IncrementUntilOverflow(bank) ==
    LET first == CHOOSE i \in 1..Len(bank) :
                    bank[i] = 65535 /\ \A j \in 1..(i - 1) : bank[j] # 65535
    IN [i \in 1..Len(bank) |-> IF i < first THEN bank[i] + 1 ELSE bank[i]]

\* create_handler: four banks of equal length, all false / all zero, no lock
\* held, both tasks between two pieces of work
ServerIdle ==
    /\ coils = [i \in 1..BankLen |-> FALSE]
    /\ discrete_inputs = [i \in 1..BankLen |-> FALSE]
    /\ holding_registers = [i \in 1..BankLen |-> 0]
    /\ input_registers = [i \in 1..BankLen |-> 0]
    /\ handler_lock = "none"
    /\ bank_lock = [b \in Banks |-> "none"]
    /\ spc = "idle"
    /\ request = NoRequest
    /\ reply = NoReply
    /\ cpc = "idle"
    /\ command = "none"

\* ---------------------------------------------------------- AddressRange
\* the 16-bit values a start or a count is drawn from
U16Bounds == {0, 1, 2, 32767, 32768, 65534, 65535}

InvalidRange(why) == [ok |-> FALSE, start |-> 0, count |-> 0, why |-> why]

\* AddressRange::try_from, in 16-bit arithmetic that cannot wrap: a count of
\* zero is refused, and so is a start beyond the largest one that leaves
\* room for count addresses
TryFrom(s, c) ==
    IF c = 0 THEN InvalidRange("CountOfZero")
    ELSE IF s > 65535 - (c - 1) THEN InvalidRange("AddressOverflow")
    ELSE [ok |-> TRUE, start |-> s, count |-> c, why |-> "-"]

\* no line is being processed
RangeIdle ==
    /\ start = 0
    /\ count = 0
    /\ range = InvalidRange("-")
    /\ rstep = "idle"

\* the codec is not exercised
CodecIdle ==
    /\ op = [fc |-> 0, data |-> <<>>]
    /\ wire = <<>>
    /\ result = ParseErr
    /\ cstep = "idle"

Init ==
    /\ queue = <<>>
    /\ closed = FALSE
    /\ pc = "wait_for_enabled"
    /\ enabled = FALSE
    /\ decode \in DecodeLevels
    /\ promise = [id \in ReqIds |-> NotCreated]
    /\ written = {}
    /\ inflight = 0
    /\ retry = MinDelay
    /\ delay = 0
    /\ handler \in Handlers
    /\ attempt = NoAttempt
    /\ CodecIdle
    /\ ServerIdle
    /\ RangeIdle

\* ------------------------------------------------- application side
\* mutant: the new command overtakes the ones already queued
SendRequestAtFront ==
    /\ ~closed
    /\ Len(queue) < MaxQueue
    /\ \E id \in ReqIds :
        /\ promise[id] = NotCreated
        /\ \A j \in ReqIds : j < id => promise[j] # NotCreated
        /\ promise' = [promise EXCEPT ![id] = Unresolved]
        /\ queue' = <<Request(id)>> \o queue
    /\ UNCHANGED <<closed, pc, enabled, decode, written, inflight,
                   retry, delay, handler, nonChannelVars, attempt>>

\* Channel: a request method creates the promise and sends Command::Request
SendRequest ==
    /\ ~closed
    /\ Len(queue) < MaxQueue
    /\ \E id \in ReqIds :
        /\ promise[id] = NotCreated
        /\ \A j \in ReqIds : j < id => promise[j] # NotCreated
        /\ promise' = [promise EXCEPT ![id] = Unresolved]
        /\ queue' = Append(queue, Request(id))
    /\ UNCHANGED <<closed, pc, enabled, decode, written, inflight,
                   retry, delay, handler, nonChannelVars, attempt>>

\* Channel::enable / disable / set_decode_level (run_channel: "ec", "dc", "ed", "dd")
SendSetting ==
    /\ ~closed
    /\ Len(queue) < MaxQueue
    /\ \E s \in Settings : queue' = Append(queue, s)
    /\ UNCHANGED <<closed, pc, enabled, decode, promise, written, inflight,
                   retry, delay, handler, nonChannelVars, attempt>>

\* run_channel returns ("x" or end of input): the Channel and its sender are dropped
DropChannel ==
    /\ ~closed
    /\ closed' = TRUE
    /\ UNCHANGED <<queue, pc, enabled, decode, promise, written,
                   inflight, retry, delay, handler, nonChannelVars, attempt>>

\* ------------------------------------------- ClientLoop::wait_for_enabled
WaitForEnabledOk ==
    /\ pc = "wait_for_enabled"
    /\ enabled
    /\ pc' = RunAfterWait("Ok")
    /\ UNCHANGED <<queue, closed, enabled, decode, promise, written,
                   inflight, retry, delay, handler, nonChannelVars, attempt>>

WaitForEnabledRecv ==
    /\ pc = "wait_for_enabled"
    /\ ~enabled
    /\ queue # <<>>
    /\ queue' = Tail(queue)
    /\ LET cmd == Head(queue) IN
        /\ promise' = IF cmd.type = "Request"
                      THEN Failure(promise, cmd.id, "Disabled") ELSE promise
        /\ enabled' = IF cmd.type = "Enable" THEN TRUE
                      ELSE IF cmd.type = "Disable" THEN FALSE ELSE enabled
        /\ decode' = IF cmd.type = "SetDecodeLevel" THEN cmd.level ELSE decode
    /\ UNCHANGED <<closed, pc, written, inflight, retry, delay,
                   handler, nonChannelVars, attempt>>

WaitForEnabledShutdown ==
    /\ pc = "wait_for_enabled"
    /\ ~enabled
    /\ queue = <<>>
    /\ closed
    /\ pc' = RunAfterWait("Shutdown")
    /\ UNCHANGED <<queue, closed, enabled, decode, promise, written,
                   inflight, retry, delay, handler, nonChannelVars, attempt>>

\* ------------------------------------ TcpChannelTask::try_connect_and_run
ConnectFailed ==
    /\ pc = "connect"
    /\ LET d == NextDelay(retry) IN
        /\ delay' = d.delay
        /\ retry' = d.retry
    /\ attempt' = [attempt EXCEPT !.connect = "Err", !.calls = Append(@, "next_delay")]
    /\ pc' = "fail_requests_for"
    /\ UNCHANGED <<queue, closed, enabled, decode, promise, written,
                   inflight, handler, nonChannelVars>>

\* mutant: the strategy is reset as soon as the TCP connect succeeds
ConnectSucceededResetsEarly ==
    /\ pc = "connect"
    /\ retry' = Reset
    /\ delay' = 0
    /\ attempt' = [attempt EXCEPT !.connect = "Ok", !.calls = Append(@, "reset")]
    /\ pc' = "handshake"
    /\ UNCHANGED <<queue, closed, enabled, decode, promise, written,
                   inflight, handler, nonChannelVars>>

ConnectSucceeded ==
    /\ pc = "connect"
    /\ attempt' = [attempt EXCEPT !.connect = "Ok"]
    /\ pc' = "handshake"
    /\ UNCHANGED <<queue, closed, enabled, decode, promise, written,
                   inflight, retry, delay, handler, nonChannelVars>>

\* mutant: a failed handshake resets the strategy before asking it for a delay
HandshakeFailedResets ==
    /\ pc = "handshake"
    /\ "Err" \in HandleResults(handler)
    /\ LET d == NextDelay(Reset) IN
        /\ delay' = d.delay
        /\ retry' = d.retry
    /\ attempt' = [attempt EXCEPT !.handshake = "Err",
                                  !.calls = @ \o <<"reset", "next_delay">>]
    /\ pc' = "fail_requests_for"
    /\ UNCHANGED <<queue, closed, enabled, decode, promise, written,
                   inflight, handler, nonChannelVars>>

HandshakeFailed ==
    /\ pc = "handshake"
    /\ "Err" \in HandleResults(handler)
    /\ LET d == NextDelay(retry) IN
        /\ delay' = d.delay
        /\ retry' = d.retry
    /\ attempt' = [attempt EXCEPT !.handshake = "Err", !.calls = Append(@, "next_delay")]
    /\ pc' = "fail_requests_for"
    /\ UNCHANGED <<queue, closed, enabled, decode, promise, written,
                   inflight, handler, nonChannelVars>>

\* mutant: the session starts without resetting the strategy
HandshakeSucceededNoReset ==
    /\ pc = "handshake"
    /\ "Ok" \in HandleResults(handler)
    /\ delay' = 0
    /\ attempt' = [attempt EXCEPT !.handshake = "Ok", !.session = "running"]
    /\ pc' = "session"
    /\ UNCHANGED <<queue, closed, enabled, decode, promise, written,
                   inflight, retry, handler, nonChannelVars>>

HandshakeSucceeded ==
    /\ pc = "handshake"
    /\ "Ok" \in HandleResults(handler)
    /\ retry' = Reset
    /\ delay' = 0
    /\ attempt' = [attempt EXCEPT !.handshake = "Ok", !.calls = Append(@, "reset"),
                                  !.session = "running"]
    /\ pc' = "session"
    /\ UNCHANGED <<queue, closed, enabled, decode, promise, written,
                   inflight, handler, nonChannelVars>>

\* ------------------------------------------ ClientLoop::fail_requests_for
FailRequestsElapsed ==
    /\ pc = "fail_requests_for"
    /\ pc' = RunAfterTry("Ok")
    /\ attempt' = NoAttempt
    /\ UNCHANGED <<queue, closed, enabled, decode, promise, written,
                   inflight, retry, delay, handler, nonChannelVars>>

FailRequestsRecv ==
    /\ pc = "fail_requests_for"
    /\ queue # <<>>
    /\ queue' = Tail(queue)
    /\ LET cmd == Head(queue) IN
        /\ promise' = IF cmd.type = "Request"
                      THEN Failure(promise, cmd.id, "NoConnection") ELSE promise
        /\ enabled' = IF cmd.type = "Enable" THEN TRUE
                      ELSE IF cmd.type = "Disable" THEN FALSE ELSE enabled
        /\ decode' = IF cmd.type = "SetDecodeLevel" THEN cmd.level ELSE decode
        /\ pc' = IF cmd.type = "Disable" THEN RunAfterTry("Disable") ELSE pc
        /\ attempt' = IF cmd.type = "Disable" THEN NoAttempt ELSE attempt
    /\ UNCHANGED <<closed, written, inflight, retry, delay, handler, nonChannelVars>>

FailRequestsShutdown ==
    /\ pc = "fail_requests_for"
    /\ queue = <<>>
    /\ closed
    /\ pc' = RunAfterTry("Shutdown")
    /\ attempt' = NoAttempt
    /\ UNCHANGED <<queue, closed, enabled, decode, promise, written,
                   inflight, retry, delay, handler, nonChannelVars>>

\* --------------------------------------------------------- ClientLoop::run
\* the session ends: client_loop.run returns SessionError err
EndSession(err) ==
    /\ attempt' = [attempt EXCEPT !.session = err]
    /\ pc' = "session_ended"

\* a Request is dequeued, serialized and written
SessionSendRequest ==
    /\ pc = "session"
    /\ queue # <<>>
    /\ Head(queue).type = "Request"
    /\ queue' = Tail(queue)
    /\ LET id == Head(queue).id IN
        \/ /\ written' = written \cup {id}
           /\ inflight' = id
           /\ pc' = "await_reply"
           /\ UNCHANGED <<promise, attempt>>
        \/ /\ promise' = Failure(promise, id, "IoError")
           /\ EndSession("IoError")
           /\ UNCHANGED <<written, inflight>>
    /\ UNCHANGED <<closed, enabled, decode, retry, delay, handler, nonChannelVars>>

\* Enable / Disable / SetDecodeLevel dequeued between requests
SessionSetting ==
    /\ pc = "session"
    /\ queue # <<>>
    /\ Head(queue).type # "Request"
    /\ queue' = Tail(queue)
    /\ LET cmd == Head(queue) IN
        /\ enabled' = IF cmd.type = "Enable" THEN TRUE
                      ELSE IF cmd.type = "Disable" THEN FALSE ELSE enabled
        /\ decode' = IF cmd.type = "SetDecodeLevel" THEN cmd.level ELSE decode
        /\ IF cmd.type = "Disable"
           THEN EndSession("Disabled")
           ELSE UNCHANGED <<pc, attempt>>
    /\ UNCHANGED <<closed, promise, written, inflight, retry, delay, handler, nonChannelVars>>

SessionShutdown ==
    /\ pc = "session"
    /\ queue = <<>>
    /\ closed
    /\ EndSession("Shutdown")
    /\ UNCHANGED <<queue, closed, enabled, decode, promise, written,
                   inflight, retry, delay, handler, nonChannelVars>>

\* a complete frame arrives before the deadline and its payload is handed to
\* handle_response; an Err leaves the promise to the caller, who fails it
ReplyReceived ==
    /\ pc = "await_reply"
    /\ \E bytes \in Replies :
        LET r == HandleResponse(promise, inflight, bytes) IN
        IF r.result = "Ok"
        THEN /\ promise' = r.promise
             /\ pc' = "session"
             /\ UNCHANGED attempt
        ELSE /\ promise' = Failure(r.promise, inflight, "BadResponse")
             /\ EndSession("BadFrame")
    /\ inflight' = 0
    /\ UNCHANGED <<queue, closed, enabled, decode, written, retry,
                   delay, handler, nonChannelVars>>

\* the per-request deadline passes first
ResponseTimeout ==
    /\ pc = "await_reply"
    /\ promise' = Failure(promise, inflight, "Timeout")
    /\ inflight' = 0
    /\ pc' = "session"
    /\ UNCHANGED <<queue, closed, enabled, decode, written, retry,
                   delay, handler, nonChannelVars, attempt>>

\* the read fails (IoError) or yields a malformed frame (BadFrame)
ReadFailed ==
    /\ pc = "await_reply"
    /\ \E err \in {"IoError", "BadFrame"} :
        /\ promise' = Failure(promise, inflight, err)
        /\ EndSession(err)
    /\ inflight' = 0
    /\ UNCHANGED <<queue, closed, enabled, decode, written, retry,
                   delay, handler, nonChannelVars>>

\* mutant: a session broken by an I/O error or a bad frame is followed by a
\* backoff like a failed connect
SessionEndedBacksOff ==
    /\ pc = "session_ended"
    /\ IF attempt.session \in {"IoError", "BadFrame"}
       THEN /\ LET d == NextDelay(retry) IN
                /\ delay' = d.delay
                /\ retry' = d.retry
            /\ attempt' = [attempt EXCEPT !.calls = Append(@, "next_delay")]
            /\ pc' = "fail_requests_for"
       ELSE /\ pc' = RunAfterTry(SessionResult(attempt.session))
            /\ attempt' = NoAttempt
            /\ UNCHANGED <<retry, delay>>
    /\ UNCHANGED <<queue, closed, enabled, decode, promise, written,
                   inflight, handler, nonChannelVars>>

\* try_connect_and_run matches on the SessionError and returns to run
SessionEnded ==
    /\ pc = "session_ended"
    /\ pc' = RunAfterTry(SessionResult(attempt.session))
    /\ attempt' = NoAttempt
    /\ UNCHANGED <<queue, closed, enabled, decode, promise, written,
                   inflight, retry, delay, handler, nonChannelVars>>

Next ==
    \/ SendRequest
    \/ SendSetting
    \/ DropChannel
    \/ WaitForEnabledOk
    \/ WaitForEnabledRecv
    \/ WaitForEnabledShutdown
    \/ ConnectFailed
    \/ ConnectSucceeded
    \/ HandshakeFailed
    \/ HandshakeSucceeded
    \/ FailRequestsElapsed
    \/ FailRequestsRecv
    \/ FailRequestsShutdown
    \/ SessionSendRequest
    \/ SessionSetting
    \/ SessionShutdown
    \/ ReplyReceived
    \/ ResponseTimeout
    \/ ReadFailed
    \/ SessionEnded

Spec == Init /\ [][Next]_vars

TypeOK ==
    /\ pc \in {"wait_for_enabled", "connect", "handshake", "fail_requests_for",
               "session", "await_reply", "session_ended", "done"}
    /\ enabled \in BOOLEAN
    /\ closed \in BOOLEAN
    /\ Len(queue) <= MaxQueue
    /\ inflight \in ReqIds \cup {0}
    /\ retry \in MinDelay..MaxDelay
    /\ delay \in 0..MaxDelay

\* the task's own steps (everything but the application side)
TaskNext ==
    \/ WaitForEnabledOk
    \/ WaitForEnabledRecv
    \/ WaitForEnabledShutdown
    \/ ConnectFailed
    \/ ConnectSucceeded
    \/ HandshakeFailed
    \/ HandshakeSucceeded
    \/ FailRequestsElapsed
    \/ FailRequestsRecv
    \/ FailRequestsShutdown
    \/ SessionSendRequest
    \/ SessionSetting
    \/ SessionShutdown
    \/ ReplyReceived
    \/ ResponseTimeout
    \/ ReadFailed
    \/ SessionEnded

\* The runtime keeps polling the spawned task, and every await of the task
\* completes (connect and handshake return, the reply deadline passes).  In
\* fail_requests_for a ready receive is taken before the sleep has elapsed.
FairSpec ==
    /\ Spec
    /\ WF_vars(TaskNext)
    /\ SF_vars(FailRequestsRecv)
    /\ SF_vars(FailRequestsShutdown)

\* ------------------------------------------------ the codec on its own
\* the channel task has not started
TaskIdle ==
    /\ queue = <<>>
    /\ closed = FALSE
    /\ pc = "wait_for_enabled"
    /\ enabled = FALSE
    /\ decode = "Nothing"
    /\ written = {}
    /\ inflight = 0
    /\ retry = MinDelay
    /\ delay = 0
    /\ handler = "Tcp"
    /\ attempt = NoAttempt

\* ... and no request has been made
ChannelIdle ==
    /\ TaskIdle
    /\ promise = [id \in ReqIds |-> NotCreated]

\* SendMutableFC::new(request, promise): request 1 and its promise
OneRequest == [id \in ReqIds |-> IF id = 1 THEN Unresolved ELSE NotCreated]

\* either an operation to send together with its promise, or the payload of
\* a frame that has arrived
CodecInit ==
    /\ TaskIdle
    /\ ServerIdle
    /\ RangeIdle
    /\ result = ParseErr
    /\ \/ /\ cstep = "new"
          /\ op \in Ops
          /\ wire = <<>>
          /\ promise = OneRequest
       \/ /\ cstep = "received"
          /\ op = [fc |-> 0, data |-> <<>>]
          /\ wire \in Replies
          /\ promise = [id \in ReqIds |-> NotCreated]

\* SendMutableFC::serialize into a cursor with room for the whole operation
SerializeOp ==
    /\ cstep = "new"
    /\ wire' = Serialize(op)
    /\ cstep' = "serialized"
    /\ UNCHANGED <<op, result, channelVars, serverVars, rangeVars>>

\* SendMutableFC::parse_all on the bytes in the cursor: the bytes just
\* serialized (a reply that echoes the request) or the bytes received
ParseReply ==
    /\ cstep \in {"serialized", "received"}
    /\ result' = ParseAll(wire)
    /\ cstep' = IF cstep = "serialized" THEN "round_trip" ELSE "parsed"
    /\ UNCHANGED <<op, wire, channelVars, serverVars, rangeVars>>

\* mutant: the check that the reply echoes the request is in force
HandleReplyChecksEcho ==
    /\ cstep = "serialized"
    /\ \E bytes \in Replies :
        LET r == HandleResponse(promise, 1, bytes)
            echo == ParseAll(bytes).fc = op.fc /\ ParseAll(bytes).data = op.data
        IN
        /\ wire' = bytes
        /\ result' = ParseAll(bytes)
        /\ promise' = IF echo THEN r.promise ELSE promise
        /\ cstep' = IF r.result = "Ok" /\ echo THEN "succeeded" ELSE "rejected"
    /\ UNCHANGED <<op, taskVars, serverVars, rangeVars>>

\* the reply to the request that was serialized arrives, and its payload is
\* handed to SendMutableFC::handle_response
HandleReply ==
    /\ cstep = "serialized"
    /\ \E bytes \in Replies :
        LET r == HandleResponse(promise, 1, bytes) IN
        /\ wire' = bytes
        /\ result' = ParseAll(bytes)
        /\ promise' = r.promise
        /\ cstep' = IF r.result = "Ok" THEN "succeeded" ELSE "rejected"
    /\ UNCHANGED <<op, taskVars, serverVars, rangeVars>>

\* handle_response returned an error: its caller completes the request with
\* SendMutableFC::failure
FailureAfterError ==
    /\ cstep = "rejected"
    /\ promise' = Failure(promise, 1, "BadResponse")
    /\ cstep' = "failed"
    /\ UNCHANGED <<op, wire, result, taskVars, serverVars, rangeVars>>

CodecNext ==
    \/ SerializeOp
    \/ ParseReply
    \/ HandleReply
    \/ FailureAfterError

CodecSpec == CodecInit /\ [][CodecNext]_vars

\* --------------------------------------------- the server and its console
ServerInit ==
    /\ ChannelIdle
    /\ CodecIdle
    /\ RangeIdle
    /\ ServerIdle

\* the server task has received a frame for the unit the handler is mapped to
DispatchRequest ==
    /\ spc = "idle"
    /\ \E r \in Requests : request' = r
    /\ spc' = "lock_handler"
    /\ UNCHANGED <<storageVars, handler_lock, bank_lock, reply, cpc, command,
                   channelVars, codecVars, rangeVars>>

\* the server task locks the handler to invoke the operation on it
DispatchLockHandler ==
    /\ spc = "lock_handler"
    /\ handler_lock = "none"
    /\ handler_lock' = "server"
    /\ spc' = "lock_bank"
    /\ UNCHANGED <<storageVars, bank_lock, request, reply, cpc, command,
                   channelVars, codecVars, rangeVars>>

\* the handler method locks the bank it works on
HandlerLockBank ==
    /\ spc = "lock_bank"
    /\ bank_lock[BankOf(request.fn)] = "none"
    /\ bank_lock' = [bank_lock EXCEPT ![BankOf(request.fn)] = "server"]
    /\ spc' = "access"
    /\ UNCHANGED <<storageVars, handler_lock, request, reply, cpc, command,
                   channelVars, codecVars, rangeVars>>

\* the handler method reads or writes the element and returns, which drops
\* the guard of the bank
HandlerAccess ==
    /\ spc = "access"
    /\ LET a == request.address IN
       CASE request.fn = "read_coil" ->
                /\ reply' = ReadCoil(coils, a)
                /\ UNCHANGED storageVars
         [] request.fn = "read_discrete_input" ->
                /\ reply' = ReadDiscreteInput(discrete_inputs, a)
                /\ UNCHANGED storageVars
         [] request.fn = "read_holding_register" ->
                /\ reply' = ReadHoldingRegister(holding_registers, a)
                /\ UNCHANGED storageVars
         [] request.fn = "read_input_register" ->
                /\ reply' = ReadInputRegister(input_registers, a)
                /\ UNCHANGED storageVars
         [] request.fn = "write_single_coil" ->
                /\ coils' = WriteSingleCoil(coils, a, request.bit).bank
                /\ reply' = WriteSingleCoil(coils, a, request.bit).result
                /\ UNCHANGED <<discrete_inputs, holding_registers, input_registers>>
         [] request.fn = "write_single_register" ->
                /\ holding_registers' =
                        WriteSingleRegister(holding_registers, a, request.reg).bank
                /\ reply' = WriteSingleRegister(holding_registers, a, request.reg).result
                /\ UNCHANGED <<coils, discrete_inputs, input_registers>>
         [] request.fn = "write_multiple_coils" ->
                LET w == WriteMultipleCoils(coils, IndexedValues(a, request.bits)) IN
                /\ coils' = w.bank
                /\ reply' = w.result
                /\ UNCHANGED <<discrete_inputs, holding_registers, input_registers>>
         [] request.fn = "write_multiple_registers" ->
                LET w == WriteMultipleRegisters(holding_registers,
                                                IndexedValues(a, request.regs)) IN
                /\ holding_registers' = w.bank
                /\ reply' = w.result
                /\ UNCHANGED <<coils, discrete_inputs, input_registers>>
    /\ bank_lock' = [bank_lock EXCEPT ![BankOf(request.fn)] = "none"]
    /\ spc' = "unlock_handler"
    /\ UNCHANGED <<handler_lock, request, cpc, command, channelVars, codecVars, rangeVars>>

\* the server task unlocks the handler and sends the reply: the value, or
\* the exception response for an Err
DispatchReply ==
    /\ spc = "unlock_handler"
    /\ handler_lock' = "none"
    /\ request' = NoRequest
    /\ spc' = "idle"
    /\ UNCHANGED <<storageVars, bank_lock, reply, cpc, command,
                   channelVars, codecVars, rangeVars>>

\* run_server reads "uc", "udi", "uhr" or "uir" (the registers are
\* incremented only up to MaxReg)
ConsoleCommand ==
    /\ cpc = "idle"
    /\ \E c \in {"uc", "udi", "uhr", "uir"} :
        /\ c = "uhr" => \A i \in 1..Len(holding_registers) :
                            holding_registers[i] < MaxReg \/ holding_registers[i] = 65535
        /\ c = "uir" => \A i \in 1..Len(input_registers) : input_registers[i] < MaxReg
        /\ command' = c
    /\ cpc' = "lock_handler"
    /\ UNCHANGED <<storageVars, handler_lock, bank_lock, spc, request, reply,
                   channelVars, codecVars, rangeVars>>

\* handler.lock().unwrap()
ConsoleLockHandler ==
    /\ cpc = "lock_handler"
    /\ handler_lock = "none"
    /\ handler_lock' = "console"
    /\ cpc' = "lock_bank"
    /\ UNCHANGED <<storageVars, bank_lock, spc, request, reply, command,
                   channelVars, codecVars, rangeVars>>

\* handler_lock.<bank>.lock().unwrap()
ConsoleLockBank ==
    /\ cpc = "lock_bank"
    /\ bank_lock[BankOfCommand(command)] = "none"
    /\ bank_lock' = [bank_lock EXCEPT ![BankOfCommand(command)] = "console"]
    /\ cpc' = "update"
    /\ UNCHANGED <<storageVars, handler_lock, spc, request, reply, command,
                   channelVars, codecVars, rangeVars>>

\* mutant: the guard of the bank outlives the match arm
ConsoleUpdateKeepsBankLock ==
    /\ cpc = "update"
    /\ CASE command = "uc" ->
                /\ coils' = FlipAll(coils)
                /\ UNCHANGED <<discrete_inputs, holding_registers, input_registers>>
         [] command = "udi" ->
                /\ discrete_inputs' = FlipAll(discrete_inputs)
                /\ UNCHANGED <<coils, holding_registers, input_registers>>
         [] command = "uhr" ->
                /\ holding_registers' = IncrementAll(holding_registers)
                /\ UNCHANGED <<coils, discrete_inputs, input_registers>>
         [] command = "uir" ->
                /\ input_registers' = IncrementAll(input_registers)
                /\ UNCHANGED <<coils, discrete_inputs, holding_registers>>
    /\ cpc' = "unlock_handler"
    /\ UNCHANGED <<handler_lock, bank_lock, spc, request, reply, command,
                   channelVars, codecVars, rangeVars>>

\* the loop over the bank runs to its end; the guard of the bank is dropped
ConsoleUpdate ==
    /\ cpc = "update"
    /\ CASE command = "uc" ->
                /\ coils' = FlipAll(coils)
                /\ UNCHANGED <<discrete_inputs, holding_registers, input_registers>>
         [] command = "udi" ->
                /\ discrete_inputs' = FlipAll(discrete_inputs)
                /\ UNCHANGED <<coils, holding_registers, input_registers>>
         [] command = "uhr" ->
                /\ holding_registers' = IncrementAll(holding_registers)
                /\ UNCHANGED <<coils, discrete_inputs, input_registers>>
         [] command = "uir" ->
                /\ input_registers' = IncrementAll(input_registers)
                /\ UNCHANGED <<coils, discrete_inputs, holding_registers>>
    /\ bank_lock' = [bank_lock EXCEPT ![BankOfCommand(command)] = "none"]
    /\ cpc' = "unlock_handler"
    /\ UNCHANGED <<handler_lock, spc, request, reply, command,
                   channelVars, codecVars, rangeVars>>

\* "uhr" in a build that checks arithmetic overflow: += 1 on 65535 panics in
\* the main task and the process ends
ConsoleUpdatePanics ==
    /\ cpc = "update"
    /\ command = "uhr"
    /\ Overflows(holding_registers)
    /\ holding_registers' = IncrementUntilOverflow(holding_registers)
    /\ cpc' = "panicked"
    /\ spc' = "exited"
    /\ UNCHANGED <<coils, discrete_inputs, input_registers, handler_lock,
                   bank_lock, request, reply, command, channelVars, codecVars, rangeVars>>

\* the guard of the handler is dropped at the end of the match arm
ConsoleUnlock ==
    /\ cpc = "unlock_handler"
    /\ handler_lock' = "none"
    /\ command' = "none"
    /\ cpc' = "idle"
    /\ UNCHANGED <<storageVars, bank_lock, spc, request, reply,
                   channelVars, codecVars, rangeVars>>

\* run_server reads "x" and returns: main returns and the process ends
ConsoleExit ==
    /\ cpc = "idle"
    /\ cpc' = "exited"
    /\ spc' = "exited"
    /\ UNCHANGED <<storageVars, handler_lock, bank_lock, request, reply,
                   command, channelVars, codecVars, rangeVars>>

ServerNext ==
    \/ DispatchRequest
    \/ DispatchLockHandler
    \/ HandlerLockBank
    \/ HandlerAccess
    \/ DispatchReply
    \/ ConsoleCommand
    \/ ConsoleLockHandler
    \/ ConsoleLockBank
    \/ ConsoleUpdate
    \/ ConsoleUpdatePanics
    \/ ConsoleUnlock
    \/ ConsoleExit

ServerSpec == ServerInit /\ [][ServerNext]_vars

\* what each task does while it holds a lock: no await lies between taking
\* the handler's lock and dropping it
ServerHolding == HandlerLockBank \/ HandlerAccess \/ DispatchReply
ConsoleHolding == ConsoleLockBank \/ ConsoleUpdate \/ ConsoleUpdatePanics \/ ConsoleUnlock

\* Both tasks keep running (the runtime polls them on its worker threads),
\* and a thread blocked in lock() is woken when the lock is released: the
\* other task cannot take the lock again before it has received a new frame
\* or a new line of input.
FairServerSpec ==
    /\ ServerSpec
    /\ WF_vars(ServerHolding)
    /\ WF_vars(ConsoleHolding)
    /\ SF_vars(DispatchLockHandler)
    /\ SF_vars(ConsoleLockHandler)

\* ------------------------------------- run_channel builds an AddressRange
\* a line "scfc 0x01 <start> <count>" has been split into its numbers
RangeInit ==
    /\ ChannelIdle
    /\ CodecIdle
    /\ ServerIdle
    /\ start \in U16Bounds
    /\ count \in U16Bounds
    /\ range = InvalidRange("-")
    /\ rstep = "parsed"

\* mutant: the two numbers are passed in the wrong order
BuildRangeSwapsArguments ==
    /\ rstep = "parsed"
    /\ range' = TryFrom(count, start)
    /\ rstep' = "built"
    /\ UNCHANGED <<start, count, channelVars, codecVars, serverVars>>

\* AddressRange::try_from(start, count)
BuildRange ==
    /\ rstep = "parsed"
    /\ range' = TryFrom(start, count)
    /\ rstep' = "built"
    /\ UNCHANGED <<start, count, channelVars, codecVars, serverVars>>

\* .unwrap(): the request is made with the range, or the task panics
UnwrapRange ==
    /\ rstep = "built"
    /\ rstep' = IF range.ok THEN "requested" ELSE "panicked"
    /\ UNCHANGED <<start, count, range, channelVars, codecVars, serverVars>>

RangeNext ==
    \/ BuildRange
    \/ UnwrapRange

RangeSpec == RangeInit /\ [][RangeNext]_vars

\* ------------------------------------------------------------ helpers
Range(s) == {s[i] : i \in 1..Len(s)}

InQueue(id) == Request(id) \in Range(queue)

\* written to the connection and not yet completed
InFlight == {id \in written : promise[id].n = 0}

\* this step takes the command at the head of the queue
Dequeues == queue # <<>> /\ queue' = Tail(queue)

\* this step resolves the promise of request id for the first time
Resolves(id) == promise[id].n = 0 /\ promise'[id].n >= 1

Results == {"Success", "Disabled", "NoConnection", "Timeout", "IoError",
            "BadFrame", "BadResponse", "Shutdown"}

\* the bank of that name
BankValue(b) ==
    CASE b = "coils" -> coils
      [] b = "discrete_inputs" -> discrete_inputs
      [] b = "holding_registers" -> holding_registers
      [] b = "input_registers" -> input_registers

\* this step is the handler method's access to its bank
Accesses == spc = "access" /\ spc' = "unlock_handler"

\* the request being processed addresses an element of its bank
AddressInside == request.address < Len(BankValue(BankOf(request.fn)))

\* the element a read request addresses, as the reply carries it
Addressed ==
    IF request.fn \in {"read_coil", "read_discrete_input"}
    THEN OkBit(BankValue(BankOf(request.fn))[request.address + 1])
    ELSE OkReg(BankValue(BankOf(request.fn))[request.address + 1])

\* ------------------------------------------------------------- claims

\* C1: the promise of every request that entered the queue is resolved at
\* most once at any time, and exactly once as soon as the task has dequeued
\* the request and is no longer executing it, in whatever state the task
\* dequeued it; nothing is left unresolved when the task has ended.
C1_ResolvedExactlyOnce ==
    \A id \in ReqIds :
        /\ promise[id].n <= 1
        /\ (promise[id].n = 1 => promise[id].val \in Results)
        /\ (promise[id] # NotCreated /\ ~InQueue(id) /\ inflight # id
                => promise[id].n = 1)
        /\ (pc = "done" /\ promise[id] # NotCreated => promise[id].n = 1)

C1_Witness ==
    /\ pc = "done"
    /\ \E a, b \in ReqIds :
        /\ promise[a] = [val |-> "Success", n |-> 1]
        /\ promise[b].val \in {"Disabled", "NoConnection"}
        /\ promise[b].n = 1

\* C2: at most one request is written to the connection and not yet
\* completed, and a request is written only when none is outstanding.
C2_AtMostOneInFlight ==
    /\ Cardinality(InFlight) <= 1
    /\ (pc = "await_reply" => InFlight = {inflight})
    /\ (pc # "await_reply" => InFlight = {} /\ inflight = 0)

C2_Witness ==
    /\ pc = "await_reply"
    /\ Cardinality(written) = 2
    /\ Cardinality(InFlight) = 1
    /\ queue # <<>>

\* C3: the task ends only by a receive on the closed, drained queue in
\* wait_for_enabled, fail_requests_for or the session; a connect failure, a
\* handshake failure and a session that ends Disabled, IoError or BadFrame
\* leave it running; and once the queue is closed the task does end.
C3_EndsIffQueueClosed ==
    /\ [](pc = "done" => closed /\ queue = <<>>)
    /\ [][pc # "done" /\ pc' = "done"
            => /\ closed /\ queue = <<>>
               /\ pc \in {"wait_for_enabled", "fail_requests_for", "session_ended"}
               /\ (pc = "session_ended" => attempt.session = "Shutdown")]_vars
    /\ [][(pc \in {"connect", "handshake"}) => (pc' # "done")]_vars
    /\ [][(pc = "session_ended"
            /\ attempt.session \in {"Disabled", "IoError", "BadFrame"})
            => (pc' # "done")]_vars
    /\ (closed ~> pc = "done")

C3_Witness ==
    /\ pc = "done"
    /\ closed
    /\ \E id \in ReqIds : promise[id].val \in {"IoError", "BadFrame"}
    /\ \E id \in ReqIds : promise[id].val = "NoConnection"

\* C4: a request dequeued while the channel is disabled is failed at once
\* with the disabled error and is not written; the task connects, waits out
\* a backoff or runs a session only while enabled, and only a dequeued
\* Enable command enables the channel.
C4_DisabledFailsRequests ==
    /\ [](pc \in {"connect", "handshake", "fail_requests_for", "session",
                  "await_reply"} => enabled)
    /\ [][\A id \in ReqIds :
            ~enabled /\ Dequeues /\ Head(queue) = Request(id)
            => /\ promise'[id] = [val |-> "Disabled", n |-> 1]
               /\ id \notin written'
               /\ inflight' # id
               /\ pc' = pc]_vars
    /\ [][~enabled /\ enabled' => Dequeues /\ Head(queue) = Enable]_vars

C4_Witness ==
    /\ pc = "wait_for_enabled"
    /\ ~enabled
    /\ \E id \in ReqIds : promise[id] = [val |-> "Disabled", n |-> 1] /\ id \notin written
    /\ written # {}

\* C5: in fail_requests_for a dequeued request is failed with the
\* no-connection error and the wait goes on; Enable and SetDecodeLevel are
\* applied and the wait goes on; Disable is applied and ends the wait at
\* once, the task going back to wait_for_enabled, which it leaves for a
\* connect attempt only when enabled.
C5_FailRequestsWindow ==
    /\ [][pc = "fail_requests_for" /\ Dequeues
            => LET cmd == Head(queue) IN
               /\ cmd.type = "Request"
                    => /\ promise'[cmd.id] = [val |-> "NoConnection", n |-> 1]
                       /\ cmd.id \notin written'
                       /\ pc' = pc
               /\ cmd.type = "Enable" => enabled' /\ pc' = pc
               /\ cmd.type = "SetDecodeLevel" => decode' = cmd.level /\ pc' = pc
               /\ cmd.type = "Disable" => ~enabled' /\ pc' = "wait_for_enabled"]_vars
    /\ [][pc = "wait_for_enabled" /\ ~enabled => pc' # "connect"]_vars

C5_Witness ==
    /\ pc = "wait_for_enabled"
    /\ ~enabled
    /\ delay = MinDelay
    /\ decode = "DataValues"
    /\ \E id \in ReqIds : promise[id] = [val |-> "NoConnection", n |-> 1]

\* C6: within one try_connect_and_run, reset is called only when connect
\* and handshake have both succeeded, it is called before the session runs,
\* and it is not called when either of them failed.
C6_ResetOnlyAfterHandshake ==
    /\ ("reset" \in Range(attempt.calls)
            => attempt.connect = "Ok" /\ attempt.handshake = "Ok")
    /\ (attempt.session # "none" => attempt.calls = <<"reset">>)
    /\ (pc \in {"session", "await_reply"}
            => attempt.session = "running" /\ retry = MinDelay)
    /\ (attempt.connect = "Err" \/ attempt.handshake = "Err"
            => attempt.calls = <<"next_delay">> /\ attempt.session = "none")

C6_Witness ==
    /\ pc = "session"
    /\ handler = "Tls"
    /\ attempt.calls = <<"reset">>
    /\ \E id \in ReqIds : promise[id].val = "NoConnection"

\* C7: each delay obtained after a failure is at least the one obtained
\* before it and at most the maximum, and the first delay obtained after a
\* connection was established (or after start) is the minimum.
C7_BackoffNonDecreasing ==
    [][attempt.calls = <<>> /\ attempt'.calls = <<"next_delay">>
        => /\ delay' >= delay
           /\ delay' >= MinDelay
           /\ delay' <= MaxDelay
           /\ (delay = 0 => delay' = MinDelay)
           /\ (delay # 0 => delay' = Min(2 * delay, MaxDelay))]_vars

C7_Witness ==
    /\ pc = "fail_requests_for"
    /\ delay = MaxDelay
    /\ retry = MaxDelay
    /\ \E id \in ReqIds : promise[id].val = "Success"

\* C8: a session that ends with IoError or BadFrame leaves the task running
\* in wait_for_enabled with the channel still enabled, and from there the
\* task's next step is a connect attempt.
C8_SessionErrorReconnects ==
    /\ [](pc = "session_ended" /\ attempt.session \in {"IoError", "BadFrame"}
            => enabled /\ inflight = 0)
    /\ [][pc = "session_ended" /\ attempt.session \in {"IoError", "BadFrame"}
            => \/ pc' = "wait_for_enabled" /\ enabled'
               \/ UNCHANGED <<pc, enabled, attempt>>]_vars
    /\ [][pc = "wait_for_enabled" /\ enabled
            => \/ pc' = "connect" /\ attempt' = NoAttempt
               \/ /\ UNCHANGED <<pc, enabled, attempt, retry, written, inflight>>
                  /\ \A id \in ReqIds : promise'[id].n = promise[id].n]_vars

C8_Witness ==
    /\ pc = "connect"
    /\ attempt = NoAttempt
    /\ enabled
    /\ \E id \in ReqIds : promise[id] = [val |-> "BadFrame", n |-> 1]
    /\ \E id \in ReqIds : promise[id] = [val |-> "IoError", n |-> 1]

\* C9: a Disable dequeued by the session ends it with SessionError::Disabled
\* and the task is back in wait_for_enabled, disabled; it leaves that state
\* only by the queue being closed, or after an Enable was dequeued.
C9_DisableEndsSession ==
    /\ [][pc = "session" /\ Dequeues /\ Head(queue) = Disable
            => /\ attempt'.session = "Disabled"
               /\ pc' = "session_ended"
               /\ ~enabled']_vars
    /\ [][pc = "session_ended" /\ attempt.session = "Disabled"
            => \/ pc' = "wait_for_enabled" /\ ~enabled'
               \/ UNCHANGED <<pc, enabled, attempt>>]_vars
    /\ [][pc = "wait_for_enabled" /\ ~enabled
            => \/ pc' = "wait_for_enabled"
               \/ pc' = "done" /\ closed /\ queue = <<>>]_vars
    /\ [][pc = "wait_for_enabled" /\ ~enabled /\ enabled'
            => Head(queue) = Enable /\ pc' = "wait_for_enabled"]_vars

C9_Witness ==
    /\ pc = "session"
    /\ \E id \in ReqIds : promise[id] = [val |-> "Disabled", n |-> 1]
    /\ \E id \in ReqIds : promise[id] = [val |-> "Success", n |-> 1]
    /\ promise[1].val = "Success"

C11_FifoOrder ==
    /\ [][\/ queue' = queue
          \/ \E c \in Settings \cup {Request(id) : id \in ReqIds} :
                queue' = Append(queue, c)
          \/ Dequeues]_vars
    /\ [][Dequeues
            => LET cmd == Head(queue) IN
               /\ inflight = 0
               /\ cmd.type = "Request"
                    => /\ promise[cmd.id] = Unresolved
                       /\ \/ promise'[cmd.id].n = 1 /\ inflight' = 0
                          \/ promise'[cmd.id].n = 0 /\ inflight' = cmd.id
                       /\ \A j \in ReqIds \ {cmd.id} : promise'[j] = promise[j]
               /\ cmd.type = "Enable" => enabled'
               /\ cmd.type = "Disable" => ~enabled'
               /\ cmd.type = "SetDecodeLevel" => decode' = cmd.level
               /\ cmd.type # "Request" => promise' = promise /\ inflight' = 0]_vars
    /\ [][enabled' # enabled
            => Dequeues /\ Head(queue) = (IF enabled' THEN Enable ELSE Disable)]_vars
    /\ [][decode' # decode
            => Dequeues /\ Head(queue) = SetDecodeLevel(decode')]_vars
    /\ [](\A a, b \in ReqIds :
            a < b /\ (promise[b].n >= 1 \/ inflight = b) => promise[a].n >= 1)
    /\ [](\A i, j \in 1..Len(queue) :
            i < j /\ queue[i].type = "Request" /\ queue[j].type = "Request"
                => queue[i].id < queue[j].id)
    /\ [](\A id \in ReqIds : InQueue(id) => promise[id] = Unresolved /\ inflight # id)

C11_Witness ==
    /\ pc = "await_reply"
    /\ inflight = 2
    /\ promise[1] = [val |-> "Timeout", n |-> 1]
    /\ queue = <<SetDecodeLevel("DataValues"), Disable>>
    /\ decode = "Nothing"

\* C12: a promise is failed with the timeout error only while its request
\* is the one in flight, and that step fails no other promise, keeps the
\* task in the same session of the same try_connect_and_run call (no
\* connect, no call of the reconnect strategy, the queue untouched), and
\* leaves the session ready to take the next command: a request at the
\* head of the queue can then be sent within that session.
C12_TimeoutFailsOnlyRequest ==
    /\ [][\A id \in ReqIds :
            Resolves(id) /\ promise'[id].val = "Timeout"
            => /\ pc = "await_reply"
               /\ inflight = id
               /\ promise'[id].n = 1
               /\ \A j \in ReqIds \ {id} : promise'[j] = promise[j]
               /\ pc' = "session"
               /\ inflight' = 0
               /\ attempt.session = "running"
               /\ UNCHANGED <<attempt, retry, delay, queue, written,
                              enabled, closed>>]_vars
    /\ [](pc = "session" /\ queue # <<>> /\ Head(queue).type = "Request"
            => ENABLED SessionSendRequest)
    /\ [][pc = "session" /\ Dequeues /\ Head(queue).type = "Request"
            => \/ /\ written' = written \cup {Head(queue).id}
                  /\ pc' = "await_reply"
                  /\ attempt' = attempt
               \/ promise'[Head(queue).id] = [val |-> "IoError", n |-> 1]]_vars

C12_Witness ==
    /\ pc = "await_reply"
    /\ inflight = 2
    /\ promise[1] = [val |-> "Timeout", n |-> 1]
    /\ written = {1, 2}
    /\ attempt.calls = <<"reset">>
    /\ delay = 0

C14_EventuallyResolved ==
    /\ [](\A id \in ReqIds :
            promise[id] = Unresolved => InQueue(id) \/ inflight = id)
    /\ \A id \in ReqIds :
            (promise[id] = Unresolved)
                ~> (promise[id].n = 1 /\ promise[id].val \in Results)

C14_Witness ==
    /\ pc = "done"
    /\ promise[1] = [val |-> "NoConnection", n |-> 1]
    /\ promise[2] = [val |-> "BadResponse", n |-> 1]
    /\ ~enabled

\* C15 as claimed: parsing what serialize wrote gives the operation back,
\* for every function code and every data vector.
C15_RoundTrip ==
    cstep = "round_trip"
        => result.ok /\ result.fc = op.fc /\ result.data = op.data

\* a round trip that does not give the operation back
C15_Witness ==
    /\ cstep = "round_trip"
    /\ op = [fc |-> 69, data |-> <<65535>>]
    /\ wire = <<69, 255, 255>>
    /\ result.ok
    /\ result.fc = 69
    /\ result.data = <<255, 255>>

\* C16: parse_all of a mutable function code accepts exactly the replies of
\* at least one byte: the first byte is the function code, every byte after
\* it is payload (one data value per byte), nothing is left in the cursor
\* for expect_empty to reject, and the empty reply is an error.
C16_ParseConsumesAll ==
    cstep \in {"parsed", "round_trip"}
        => /\ result.ok <=> Len(wire) >= 1
           /\ result.ok
                => /\ result.fc = wire[1]
                   /\ result.data = Tail(wire)
                   /\ Len(result.data) = Len(wire) - 1
                   /\ result.rest = <<>>
           /\ ~result.ok => result = ParseErr /\ wire = <<>>
           /\ ParseAllOk(wire) <=> ParseOk(wire) /\ ParseRest(wire) = <<>>

C16_Witness ==
    /\ cstep = "parsed"
    /\ Len(wire) >= 2
    /\ result.ok
    /\ result.data = Tail(wire)
    /\ result.data # <<>>

\* C21: for a mutable function code the reply is not compared with the
\* request: handle_response completes the request with success for every
\* reply that parse_all accepts, whatever its function code and data, and
\* with nothing else; it rejects exactly the replies parse_all rejects.
C21_ReplyNotChecked ==
    /\ cstep \in {"succeeded", "rejected"}
            => (cstep = "succeeded" <=> ParseAllOk(wire))
    /\ cstep = "succeeded"
            => /\ promise[1] = [val |-> "Success", n |-> 1]
               /\ result = Parse(wire)

\* success for a reply with another function code and other data than the
\* request that was sent
C21_Witness ==
    /\ cstep = "succeeded"
    /\ op = [fc |-> 69, data |-> <<258>>]
    /\ result.fc = 255
    /\ result.data = <<0>>
    /\ wire # Serialize(op)
    /\ promise[1] = [val |-> "Success", n |-> 1]

\* C22: a failed connect and a failed handshake (after a connect that
\* succeeded) each ask the strategy for a delay exactly once, never reset
\* it, start no session and complete no request, and the task enters
\* fail_requests_for with the delay the strategy returned.
C22_ConnectFailureBacksOff ==
    /\ [][(pc \in {"connect", "handshake"}) /\ "Err" \in {attempt'.connect, attempt'.handshake}
            => /\ attempt'.calls = <<"next_delay">>
               /\ delay' = NextDelay(retry).delay
               /\ retry' = NextDelay(retry).retry
               /\ attempt'.session = "none"
               /\ pc' = "fail_requests_for"
               /\ attempt'.connect = (IF pc = "connect" THEN "Err" ELSE "Ok")
               /\ queue' = queue
               /\ promise' = promise
               /\ written' = written
               /\ inflight' = inflight
               /\ (enabled' = enabled)]_vars
    /\ [][pc' = "fail_requests_for" /\ pc # "fail_requests_for"
            => /\ pc \in {"connect", "handshake"}
               /\ ("Err" \in {attempt'.connect, attempt'.handshake})]_vars
    /\ [](pc = "fail_requests_for"
            => /\ attempt.calls = <<"next_delay">>
               /\ attempt.session = "none"
               /\ delay \in MinDelay..MaxDelay
               /\ retry = Min(2 * delay, MaxDelay))

\* the second failure in a row, a TLS handshake that failed after the TCP
\* connect succeeded: one call of next_delay, the doubled delay
C22_Witness ==
    /\ pc = "fail_requests_for"
    /\ handler = "Tls"
    /\ attempt.connect = "Ok"
    /\ attempt.handshake = "Err"
    /\ attempt.calls = <<"next_delay">>
    /\ delay = 2 * MinDelay

\* C23: handle_response completes the request, with success, only for a
\* reply that parses with nothing left in the cursor; for a reply that does
\* not parse it returns the error and leaves the promise unresolved, the
\* caller's failure then completes it, and the promise is completed once.
C23_ResolvedByOneOfBoth ==
    /\ cstep = "succeeded"
            => /\ ParseOk(wire)
               /\ ParseRest(wire) = <<>>
               /\ promise[1] = [val |-> "Success", n |-> 1]
    /\ cstep = "rejected"
            => /\ ~ParseAllOk(wire)
               /\ promise[1] = Unresolved
    /\ cstep = "failed"
            => /\ ~ParseAllOk(wire)
               /\ promise[1] = [val |-> "BadResponse", n |-> 1]
    /\ \A id \in ReqIds : promise[id].n <= 1

\* a reply that did not parse: the request was failed by the caller, once
C23_Witness ==
    /\ cstep = "failed"
    /\ wire = <<>>
    /\ ~result.ok
    /\ promise[1] = [val |-> "BadResponse", n |-> 1]

\* C24: after an established session has ended with IoError or BadFrame the
\* task goes through wait_for_enabled, which returns at once because the
\* channel is still enabled, to the next connect: the strategy is not asked
\* for a delay and fail_requests_for is not entered on the way, so the
\* reconnect happens without backoff.
C24_NoBackoffAfterSession ==
    /\ [](pc = "session_ended" /\ attempt.session \in {"IoError", "BadFrame"}
            => /\ enabled
               /\ delay = 0
               /\ retry = MinDelay
               /\ attempt.calls = <<"reset">>)
    /\ [][pc = "session_ended" /\ attempt.session \in {"IoError", "BadFrame"}
            => /\ pc' \in {"session_ended", "wait_for_enabled"}
               /\ pc' = "wait_for_enabled" => enabled' /\ attempt' = NoAttempt
               /\ retry' = retry
               /\ (delay' = delay)]_vars
    /\ [][pc = "wait_for_enabled" /\ enabled
            => /\ pc' \in {"wait_for_enabled", "connect"}
               /\ retry' = retry
               /\ delay' = delay
               /\ enabled' = enabled
               /\ (attempt' = attempt)]_vars
    /\ [][(pc = "session_ended") => (pc' # "fail_requests_for")]_vars

\* the connect that follows a session broken by a bad frame, with the
\* strategy as the session's reset left it
C24_Witness ==
    /\ pc = "connect"
    /\ attempt = NoAttempt
    /\ delay = 0
    /\ retry = MinDelay
    /\ promise[1] = [val |-> "NoConnection", n |-> 1]
    /\ promise[2] = [val |-> "BadFrame", n |-> 1]

\* C25: host.connect() is called only from wait_for_enabled having returned
\* with the channel enabled, and no Disable is processed between that return
\* and the end of the connect and the handshake; a session is entered only
\* from the handshake of the same attempt, after its connect and handshake
\* succeeded, and runs only while the channel is enabled.
C25_ConnectOnlyWhenEnabled ==
    /\ [](pc \in {"connect", "handshake", "session", "await_reply"} => enabled)
    /\ [][pc' = "connect" /\ pc # "connect"
            => pc = "wait_for_enabled" /\ enabled /\ enabled' /\ (attempt' = NoAttempt)]_vars
    /\ [][(pc \in {"connect", "handshake"})
            => /\ enabled' = enabled
               /\ (queue' = queue \/ SubSeq(queue', 1, Len(queue)) = queue)]_vars
    /\ [][pc' = "session" /\ pc \notin {"session", "await_reply"}
            => /\ pc = "handshake"
               /\ attempt.connect = "Ok"
               /\ attempt'.connect = "Ok"
               /\ attempt'.handshake = "Ok"
               /\ (attempt'.session = "running")]_vars
    /\ [](pc \in {"session", "await_reply"}
            => attempt.connect = "Ok" /\ attempt.handshake = "Ok")

\* a session running while a Disable is queued behind it, after an earlier
\* period in which the channel was disabled
C25_Witness ==
    /\ pc = "await_reply"
    /\ enabled
    /\ attempt.connect = "Ok"
    /\ attempt.handshake = "Ok"
    /\ Disable \in Range(queue)
    /\ promise[1] = [val |-> "Disabled", n |-> 1]
    /\ inflight = 2

\* C17: a read of an address beyond the bank's storage returns the
\* exception IllegalDataAddress and changes no bank; no other exception is
\* ever returned; the server task goes on to unlock the handler and to
\* accept the next request (it ends only when the console ends the
\* process); and a read of an address inside the storage that follows an
\* exception reply returns the stored value.
C17_ReadBeyondStorage ==
    /\ [][Accesses /\ request.fn \in ReadFns /\ ~AddressInside
            => reply' = Exception("IllegalDataAddress") /\ UNCHANGED storageVars]_vars
    /\ [](reply.kind = "exception" => reply.code = "IllegalDataAddress")
    /\ [][spc = "access"
            => \/ Accesses
               \/ spc' = spc
               \/ spc' = "exited" /\ cpc # cpc' /\ cpc' \in {"exited", "panicked"}]_vars
    /\ [][spc = "unlock_handler" /\ spc' # spc
            => \/ spc' = "idle" /\ reply' = reply /\ handler_lock' = "none"
               \/ spc' = "exited" /\ cpc # cpc' /\ cpc' \in {"exited", "panicked"}]_vars
    /\ [](spc = "idle" => ENABLED DispatchRequest)
    /\ [][Accesses /\ request.fn \in ReadFns /\ AddressInside
            /\ reply.kind = "exception"
            => reply' = Addressed /\ UNCHANGED storageVars]_vars

C17_Witness ==
    /\ spc = "access"
    /\ reply = Exception("IllegalDataAddress")
    /\ request.fn = "read_holding_register"
    /\ request.address = BankLen - 1
    /\ holding_registers[BankLen] = 65535

\* C18: a write_single_coil or write_single_register for an index inside
\* the storage returns Ok, sets exactly that element to the written value
\* and changes nothing else; a write for an index outside returns the
\* exception and changes nothing; a read returns the element as it is
\* stored; and an element changes only by a write (single or multiple)
\* that addresses it or by the console command that updates its whole
\* bank.  So a read returns the written value until the next write to that
\* index.
C18_WriteThenRead ==
    /\ [][Accesses /\ request.fn = "write_single_coil" /\ AddressInside
            => /\ reply' = OkUnit
               /\ Len(coils') = Len(coils)
               /\ coils'[request.address + 1] = request.bit
               /\ \A i \in 1..Len(coils) :
                    i # request.address + 1 => coils'[i] = coils[i]
               /\ UNCHANGED <<discrete_inputs, holding_registers, input_registers>>]_vars
    /\ [][Accesses /\ request.fn = "write_single_register" /\ AddressInside
            => /\ reply' = OkUnit
               /\ Len(holding_registers') = Len(holding_registers)
               /\ holding_registers'[request.address + 1] = request.reg
               /\ \A i \in 1..Len(holding_registers) :
                    i # request.address + 1
                        => holding_registers'[i] = holding_registers[i]
               /\ UNCHANGED <<coils, discrete_inputs, input_registers>>]_vars
    /\ [][Accesses /\ request.fn \notin ReadFns /\ ~AddressInside
            => reply' = Exception("IllegalDataAddress") /\ UNCHANGED storageVars]_vars
    /\ [][Accesses /\ request.fn \in ReadFns /\ AddressInside
            => reply' = Addressed /\ UNCHANGED storageVars]_vars
    /\ [][\A i \in 1..BankLen :
            coils'[i] # coils[i]
            => \/ /\ Accesses
                  /\ request.fn = "write_single_coil"
                  /\ request.address = i - 1
               \/ /\ Accesses
                  /\ request.fn = "write_multiple_coils"
                  /\ i - request.address \in 1..Len(request.bits)
               \/ cpc = "update" /\ command = "uc" /\ cpc' # cpc]_vars
    /\ [][\A i \in 1..BankLen :
            holding_registers'[i] # holding_registers[i]
            => \/ /\ Accesses
                  /\ request.fn = "write_single_register"
                  /\ request.address = i - 1
               \/ /\ Accesses
                  /\ request.fn = "write_multiple_registers"
                  /\ i - request.address \in 1..Len(request.regs)
               \/ cpc = "update" /\ command = "uhr" /\ cpc' # cpc]_vars
    /\ [][discrete_inputs' # discrete_inputs
            => cpc = "update" /\ command = "udi" /\ cpc' # cpc]_vars
    /\ [][input_registers' # input_registers
            => cpc = "update" /\ command = "uir" /\ cpc' # cpc]_vars

C18_Witness ==
    /\ spc = "unlock_handler"
    /\ request.fn = "read_coil"
    /\ request.address = 0
    /\ reply = OkBit(TRUE)
    /\ coils[1] = TRUE
    /\ coils[BankLen] = FALSE
    /\ holding_registers[BankLen] = 65535
    /\ holding_registers[1] = 0

\* C19: AddressRange::try_from(start, count) succeeds exactly when count > 0
\* and start + count - 1 <= 65535, the sum taken in the integers; a range
\* that was built holds the start and the count it was built from, and
\* only such a range is handed to a request.
C19_AddressRangeValid ==
    /\ rstep \in {"built", "requested", "panicked"}
        => /\ range.ok <=> (count > 0 /\ start + count - 1 <= 65535)
           /\ range.ok => range.start = start /\ range.count = count
           /\ ~range.ok /\ count = 0 => range.why = "CountOfZero"
           /\ ~range.ok /\ count # 0 => range.why = "AddressOverflow"
    /\ rstep = "requested" => range.ok /\ range.start + range.count - 1 <= 65535
    /\ rstep = "panicked" => ~range.ok

C19_Witness ==
    /\ rstep = "requested"
    /\ start = 65534
    /\ count = 2
    /\ range.ok

\* the bank a task is working on, and whether it waits for a lock that the
\* other task holds
ServerBank == BankOf(request.fn)
ConsoleBank == BankOfCommand(command)

ServerWaits ==
    \/ spc = "lock_handler" /\ handler_lock = "console"
    \/ spc = "lock_bank" /\ bank_lock[ServerBank] = "console"

ConsoleWaits ==
    \/ cpc = "lock_handler" /\ handler_lock = "server"
    \/ cpc = "lock_bank" /\ bank_lock[ConsoleBank] = "server"

\* C20 as claimed: locking is per bank, so a task that has to wait for a
\* lock waits for an access of the other task to the same bank.
C20_WaitsOnlyForSameBank ==
    /\ ServerWaits => ServerBank = ConsoleBank
    /\ ConsoleWaits => ConsoleBank = ServerBank

\* the server task, about to read a coil, waits for the handler lock that
\* the console task holds while it updates the holding registers
C20_Witness ==
    /\ spc = "lock_handler"
    /\ request.fn = "read_coil"
    /\ handler_lock = "console"
    /\ command = "uhr"
    /\ cpc = "update"
    /\ bank_lock["holding_registers"] = "console"
    /\ bank_lock["coils"] = "none"
\* the values of a write-multiple request, and how many of them, counted
\* from the first, have an index inside a bank of length n
WrittenValues == IF request.fn = "write_multiple_coils" THEN request.bits ELSE request.regs

InsidePrefix(n) ==
    CHOOSE k \in 0..Len(WrittenValues) :
        /\ \A i \in 1..k : request.address + i - 1 < n
        /\ k < Len(WrittenValues) => request.address + k >= n

\* a bank after the first k values were written to it, in the order given
AfterPrefix(bank, k) ==
    [j \in 1..Len(bank) |->
        IF j - request.address \in 1..k THEN WrittenValues[j - request.address] ELSE bank[j]]

\* C26: write_multiple_coils and write_multiple_registers write the values
\* in the order of the request up to the first index outside the bank; the
\* values before that index stay written and the reply is
\* IllegalDataAddress; when no index is outside, every value is written
\* and the reply is Ok; no other bank changes.
C26_WriteMultiplePartial ==
    /\ [][Accesses /\ request.fn = "write_multiple_coils"
            => LET k == InsidePrefix(Len(coils)) IN
               /\ coils' = AfterPrefix(coils, k)
               /\ reply' = (IF k = Len(request.bits) THEN OkUnit
                            ELSE Exception("IllegalDataAddress"))
               /\ (UNCHANGED <<discrete_inputs, holding_registers, input_registers>>)]_vars
    /\ [][Accesses /\ request.fn = "write_multiple_registers"
            => LET k == InsidePrefix(Len(holding_registers)) IN
               /\ holding_registers' = AfterPrefix(holding_registers, k)
               /\ reply' = (IF k = Len(request.regs) THEN OkUnit
                            ELSE Exception("IllegalDataAddress"))
               /\ (UNCHANGED <<coils, discrete_inputs, input_registers>>)]_vars

\* two registers were to be written from the last address of the bank: the
\* first value is in the bank, the reply is the exception
C26_Witness ==
    /\ spc = "unlock_handler"
    /\ request.fn = "write_multiple_registers"
    /\ request.address = BankLen - 1
    /\ request.regs = <<65535, 0>>
    /\ reply = Exception("IllegalDataAddress")
    /\ holding_registers[BankLen] = 65535
    /\ \A j \in 1..(BankLen - 1) : holding_registers[j] # 65535

\* the locks a task holds
HeldBy(o) == {b \in Banks : bank_lock[b] = o}

\* the process has ended ("x", or the panic of "uhr" on a register of 65535)
Ended == spc = "exited"

====
